---- MODULE Spec2Model ----
(***************************************************************************)
(* Centsible backend: accounts (register, OTP verification, login,         *)
(* password reset), the JWT access guard, and the ledger of transactions.  *)
(* The stores are the MongoDB collections behind the Mongoose models User  *)
(* and Transaction; every route handler is one action.                     *)
(***************************************************************************)
EXTENDS Integers, Sequences, FiniteSets, TLC

VARIABLES
    users,      \* the User collection: a sequence of documents, _id = index
    txs,        \* the Transaction collection: a set of documents
    nextTxId,   \* the next Transaction _id (ids are never reused)
    now,        \* Date.now(), in milliseconds
    inflight,   \* requests suspended at an await (interleaved handlers)
    last,       \* the last request handled and the response it was sent
    trace,      \* the responses one scripted client has received, in order
    transactions \* the browser's TransactionProvider state: the list shown

vars == <<users, txs, nextTxId, now, inflight, last, trace, transactions>>

-----------------------------------------------------------------------------
(* Bounds of the model *)

\* how many OTP windows the clock can advance
MaxWindows == 2
\* how many transactions are ever created
MaxTx == 2
\* how many requests are in flight at once in the interleaved specification
MaxInflight == 2
\* how many transactions one account holds in the large ledger
MaxBulk == 101
\* the calls the browser makes of the TransactionProvider
MaxCalls == 3
\* the milliseconds the browser session lasts
MaxElapsed == 1002
\* the milliseconds by which a call follows another, or a timer fires late
MaxLate == 2

-----------------------------------------------------------------------------
(* Values *)

Undefined == "undefined"
NoDate == -1
NoUser == 0

\* generateOTP / generateResetOTP: 10 * 60 * 1000
OTP_WINDOW_MS == 10 * 60 * 1000
\* JWT_EXPIRE=7d, in the seconds jsonwebtoken counts in
JWT_EXPIRE_S == 7 * 24 * 60 * 60
\* the process starts one token lifetime after the epoch, so that a token
\* issued before the start has lapsed while one issued since has not
StartTime == JWT_EXPIRE_S * 1000
Instants == {StartTime + k * OTP_WINDOW_MS : k \in 0..MaxWindows}

\* Math.floor(100000 + Math.random() * 900000).toString(): two of its values
Codes == {"123456", "654321"}
\* what a request can carry as otp: a code, or nothing
OtpInputs == Codes \cup {Undefined}

\* e-mail addresses as sequences of characters
EmailA == <<"a", "@", "x", ".", "c", "o">>
EmailAUpper == <<" ", "A", "@", "X", ".", "c", "o">>
EmailB == <<"b", "@", "x", ".", "c", "o">>
NoEmail == <<>>
\* an address the schema's pattern rejects: no "@"
EmailMalformed == <<"a", "x", ".", "c", "o">>
\* the addresses that sign up, and one more that only ever asks
RegisterEmails == {EmailA, EmailAUpper}
EmailInputs == RegisterEmails \cup {EmailB}

-----------------------------------------------------------------------------
(* Strings: String.prototype.toLowerCase and trim, as the schema's          *)
(* lowercase and trim setters apply them                                    *)

LowerChar(c) ==
    CASE c = "A" -> "a"
      [] c = "B" -> "b"
      [] c = "X" -> "x"
      [] OTHER -> c

toLowerCase(s) == [i \in 1..Len(s) |-> LowerChar(s[i])]

RECURSIVE trimStart(_)
trimStart(s) ==
    IF s # <<>> /\ Head(s) = " " THEN trimStart(Tail(s)) ELSE s

RECURSIVE trimEnd(_)
trimEnd(s) ==
    IF s # <<>> /\ s[Len(s)] = " " THEN trimEnd(SubSeq(s, 1, Len(s) - 1)) ELSE s

trim(s) == trimEnd(trimStart(s))

\* userSchema.email: lowercase: true, trim: true (setters; Mongoose runs them
\* on documents and on query filters alike)
CastEmail(s) == trim(toLowerCase(s))

-----------------------------------------------------------------------------
(* bcryptjs *)

bcryptHash(s) == "$2a$10$" \o s
bcryptCompare(candidate, hash) == hash = bcryptHash(candidate)

-----------------------------------------------------------------------------
(* jsonwebtoken: a token is its payload and who signed it *)

NoToken == [kind |-> "none", id |-> NoUser, exp |-> 0, sig |-> "none"]
Garbage == [kind |-> "garbage", id |-> NoUser, exp |-> 0, sig |-> "none"]

\* exports.generateToken: jwt.sign({ id }, JWT_SECRET, { expiresIn: JWT_EXPIRE })
generateToken(userId, t) ==
    [kind |-> "jwt", id |-> userId, exp |-> (t \div 1000) + JWT_EXPIRE_S,
     sig |-> "server"]

\* jwt.verify(token, JWT_SECRET) returns the payload; FALSE stands for a throw
jwtVerifies(token, t) ==
    /\ token.kind = "jwt"
    /\ token.sig = "server"
    /\ (t \div 1000) < token.exp

-----------------------------------------------------------------------------
(* models/User.js *)

WordChars == {"a", "b", "c", "o", "x", "A", "B", "X"}

\* \w+([\.-]?\w+)* : word characters, single "." or "-" only between them
Dotted(s) ==
    /\ s # <<>>
    /\ s[1] \in WordChars
    /\ s[Len(s)] \in WordChars
    /\ \A i \in 1..Len(s) : s[i] \in WordChars \cup {".", "-"}
    /\ \A i \in 1..(Len(s) - 1) : s[i] \in WordChars \/ s[i + 1] \in WordChars

\* userSchema.email.match: /^\w+([\.-]?\w+)*@\w+([\.-]?\w+)*(\.\w{2,3})+$/
EmailMatches(s) ==
    \E i \in 1..Len(s) : \E k \in {2, 3} :
        /\ s[i] = "@"
        /\ Len(s) - k - 1 > i
        /\ Dotted(SubSeq(s, 1, i - 1))
        /\ Dotted(SubSeq(s, i + 1, Len(s) - k - 1))
        /\ s[Len(s) - k] = "."
        /\ \A j \in (Len(s) - k + 1)..Len(s) : s[j] \in WordChars

\* new User({ name, email, password, isVerified: false })
NewUser(name, email, password) ==
    [name |-> name,
     email |-> CastEmail(email),
     password |-> password,
     isVerified |-> FALSE,
     otp |-> Undefined,
     otpExpires |-> NoDate,
     resetPasswordOTP |-> Undefined,
     resetPasswordExpires |-> NoDate]

\* the schema's validators, run by save() before the pre('save') hook
UserValid(doc) ==
    /\ doc.name # ""
    /\ doc.email # <<>>
    /\ EmailMatches(doc.email)
    /\ Len(doc.password) >= 6

\* userSchema.pre('save'): hash the password only when it was modified
\* a hook without the isModified('password') test: every save hashes
preSaveAlways(doc, passwordModified) ==
    [doc EXCEPT !.password = bcryptHash(doc.password)]

\* userSchema.pre('save'): the password is hashed when it was modified
preSave(doc, passwordModified) ==
    IF passwordModified
    THEN [doc EXCEPT !.password = bcryptHash(doc.password)]
    ELSE doc

\* userSchema.methods.comparePassword
comparePassword(doc, candidatePassword) ==
    bcryptCompare(candidatePassword, doc.password)

\* generateOTP that keeps the expiry of a code already issued
generateOTPKeepsExpiry(doc, code, t) ==
    [doc EXCEPT !.otp = code,
                !.otpExpires = IF @ = NoDate THEN t + OTP_WINDOW_MS ELSE @]

\* userSchema.methods.generateOTP, with the code Math.random() drew
generateOTP(doc, code, t) ==
    [doc EXCEPT !.otp = code, !.otpExpires = t + OTP_WINDOW_MS]

\* generateResetOTP that also drops the verification code
generateResetOTPClearsOtp(doc, code, t) ==
    [doc EXCEPT !.resetPasswordOTP = code,
                !.resetPasswordExpires = t + OTP_WINDOW_MS,
                !.otp = Undefined,
                !.otpExpires = NoDate]

\* userSchema.methods.generateResetOTP
generateResetOTP(doc, code, t) ==
    [doc EXCEPT !.resetPasswordOTP = code,
                !.resetPasswordExpires = t + OTP_WINDOW_MS]

\* Date.now() > expires; a comparison with undefined is false
IsPast(t, expires) == expires # NoDate /\ t > expires

UserIds(store) == 1..Len(store)

\* User.findOne({ email }): the _id of the document, or NoUser
findOneByEmail(store, email) ==
    LET hits == {i \in UserIds(store) : store[i].email = CastEmail(email)}
    IN IF hits = {} THEN NoUser ELSE CHOOSE i \in hits : \A j \in hits : i <= j

\* User.findById(id)
findById(store, id) == IF id \in UserIds(store) THEN id ELSE NoUser

\* a collection without the unique index
noUniqueIndex(store, email) == FALSE

\* the unique index on email
EmailTaken(store, email) == \E i \in UserIds(store) : store[i].email = email

-----------------------------------------------------------------------------
(* Requests and responses *)

\* the Authorization header: its scheme word and the token after the space
NoAuth == [scheme |-> "none", token |-> NoToken]
Bearer(token) == [scheme |-> "Bearer", token |-> token]

\* a request: the body fields of the accounts routes, the Authorization
\* header, and for the ledger routes req.params.id and req.body / req.query
NoReq ==
    [name |-> "", email |-> NoEmail, password |-> "", otp |-> Undefined,
     newPassword |-> "", auth |-> NoAuth, id |-> 0, body |-> <<>>,
     query |-> <<>>, storeFault |-> FALSE]

\* res.status(s).json({ success, error | message, token, data }); uid is
\* data.id of the accounts routes, data the documents of the ledger routes
FullResponse(op, req, status, text, token, uid, data) ==
    [op |-> op, req |-> req, status |-> status, text |-> text,
     token |-> token, uid |-> uid, data |-> data]

Response(op, req, status, text, token, uid) ==
    FullResponse(op, req, status, text, token, uid, <<>>)

NoResponse == Response("none", NoReq, 0, "", NoToken, NoUser)

-----------------------------------------------------------------------------
(* routes/auth.js: each handler maps the store and a request to the store   *)
(* it leaves and the response it sends                                      *)

Reply(store, res) == [users |-> store, res |-> res]

\* router.post('/register') up to the save: the input check and
\* User.findOne({ email }); status 0 when the handler goes on
registerFind(store, req) ==
    IF req.name = "" \/ req.email = NoEmail \/ req.password = ""
    THEN [status |-> 400, text |-> "Please provide name, email, and password"]
    ELSE IF findOneByEmail(store, req.email) # NoUser
    THEN [status |-> 400, text |-> "Email already registered"]
    ELSE [status |-> 0, text |-> ""]

\* a /register that removes the user it stored when the mail fails
registerSaveRollsBack(store, req, user, mailOk) ==
    IF ~UserValid(user)
    THEN Reply(store, Response("register", req, 500,
               "User validation failed", NoToken, NoUser))
    ELSE IF EmailTaken(store, user.email)
    THEN Reply(store, Response("register", req, 500,
               "E11000 duplicate key error", NoToken, NoUser))
    ELSE IF ~mailOk
    THEN Reply(store, Response("register", req, 500,
               "Email could not be sent", NoToken, NoUser))
    ELSE Reply(Append(store, preSave(user, TRUE)),
               Response("register", req, 201,
                   "Registration successful! Please check your email for OTP verification.",
                   NoToken, NoUser))

\* router.post('/register') from await user.save() on: the validators, the
\* insert under the unique index, sendEmail, the response
registerSave(store, req, user, mailOk) ==
    IF ~UserValid(user)
    THEN Reply(store, Response("register", req, 500,
               "User validation failed", NoToken, NoUser))
    ELSE IF EmailTaken(store, user.email)
    THEN Reply(store, Response("register", req, 500,
               "E11000 duplicate key error", NoToken, NoUser))
    ELSE LET saved == Append(store, preSave(user, TRUE))
         IN IF ~mailOk
            THEN Reply(saved, Response("register", req, 500,
                       "Email could not be sent", NoToken, NoUser))
            ELSE Reply(saved, Response("register", req, 201,
                       "Registration successful! Please check your email for OTP verification.",
                       NoToken, NoUser))

\* router.post('/register'); code is the OTP drawn, mailOk whether
\* sendEmail resolved
registerHandler(store, req, code, mailOk, t) ==
    LET c == registerFind(store, req)
    IN IF c.status # 0
       THEN Reply(store, Response("register", req, c.status, c.text,
                  NoToken, NoUser))
       ELSE registerSave(store, req,
                generateOTP(NewUser(req.name, req.email, req.password), code, t),
                mailOk)

\* the checks of /verify without the comparison of the code
verifyChecksAnyCode(store, id, req, t) ==
    IF id = NoUser THEN [status |-> 404, text |-> "User not found"]
    ELSE IF store[id].isVerified
    THEN [status |-> 400, text |-> "Email already verified"]
    ELSE IF IsPast(t, store[id].otpExpires)
    THEN [status |-> 400, text |-> "OTP has expired. Please request a new one."]
    ELSE [status |-> 200, text |-> "Email verified successfully!"]

\* the checks of /verify with the expiry tested before the code
verifyChecksExpiryFirst(store, id, req, t) ==
    IF id = NoUser THEN [status |-> 404, text |-> "User not found"]
    ELSE IF store[id].isVerified
    THEN [status |-> 400, text |-> "Email already verified"]
    ELSE IF IsPast(t, store[id].otpExpires)
    THEN [status |-> 400, text |-> "OTP has expired. Please request a new one."]
    ELSE IF store[id].otp # req.otp
    THEN [status |-> 400, text |-> "Invalid OTP"]
    ELSE [status |-> 200, text |-> "Email verified successfully!"]

\* router.post('/verify'): the checks made on the document findOne returned
\* (id = NoUser when it returned null); "ok" when all of them pass
verifyChecks(store, id, req, t) ==
    IF id = NoUser THEN [status |-> 404, text |-> "User not found"]
    ELSE IF store[id].isVerified
    THEN [status |-> 400, text |-> "Email already verified"]
    ELSE IF store[id].otp # req.otp
    THEN [status |-> 400, text |-> "Invalid OTP"]
    ELSE IF IsPast(t, store[id].otpExpires)
    THEN [status |-> 400, text |-> "OTP has expired. Please request a new one."]
    ELSE [status |-> 200, text |-> "Email verified successfully!"]

\* user.isVerified = true; user.otp = undefined; user.otpExpires = undefined;
\* await user.save()
verifySave(store, id) ==
    [store EXCEPT ![id] = preSave([@ EXCEPT !.isVerified = TRUE,
                                            !.otp = Undefined,
                                            !.otpExpires = NoDate],
                                  FALSE)]

\* router.post('/verify')
verifyHandler(store, req, t) ==
    IF req.email = NoEmail \/ req.otp = Undefined
    THEN Reply(store, Response("verify", req, 400,
               "Please provide email and OTP", NoToken, NoUser))
    ELSE LET id == findOneByEmail(store, req.email)
             c == verifyChecks(store, id, req, t)
         IN IF c.status # 200
            THEN Reply(store, Response("verify", req, c.status, c.text,
                       NoToken, NoUser))
            ELSE Reply(verifySave(store, id),
                       Response("verify", req, 200, c.text,
                                generateToken(id, t), id))

\* router.post('/resend-otp')
resendHandler(store, req, code, mailOk, t) ==
    IF req.email = NoEmail
    THEN Reply(store, Response("resend-otp", req, 400,
               "Please provide email", NoToken, NoUser))
    ELSE LET id == findOneByEmail(store, req.email)
         IN IF id = NoUser
            THEN Reply(store, Response("resend-otp", req, 404,
                       "User not found", NoToken, NoUser))
            ELSE IF store[id].isVerified
            THEN Reply(store, Response("resend-otp", req, 400,
                       "Email already verified", NoToken, NoUser))
            ELSE LET saved == [store EXCEPT
                                 ![id] = preSave(generateOTP(@, code, t), FALSE)]
                 IN IF ~mailOk
                    THEN Reply(saved, Response("resend-otp", req, 500,
                               "Failed to resend OTP", NoToken, NoUser))
                    ELSE Reply(saved, Response("resend-otp", req, 200,
                               "New OTP sent to your email", NoToken, NoUser))

\* /login without the isVerified check
loginUnverifiedToo(store, req, t) ==
    IF req.email = NoEmail \/ req.password = ""
    THEN Reply(store, Response("login", req, 400,
               "Please provide email and password", NoToken, NoUser))
    ELSE LET id == findOneByEmail(store, req.email)
         IN IF id = NoUser \/ ~comparePassword(store[id], req.password)
            THEN Reply(store, Response("login", req, 401,
                       "Invalid credentials", NoToken, NoUser))
            ELSE Reply(store, Response("login", req, 200,
                       "Login successful", generateToken(id, t), id))

\* router.post('/login')
loginHandler(store, req, t) ==
    IF req.email = NoEmail \/ req.password = ""
    THEN Reply(store, Response("login", req, 400,
               "Please provide email and password", NoToken, NoUser))
    ELSE LET id == findOneByEmail(store, req.email)
         IN IF id = NoUser
            THEN Reply(store, Response("login", req, 401,
                       "Invalid credentials", NoToken, NoUser))
            ELSE IF ~store[id].isVerified
            THEN Reply(store, Response("login", req, 401,
                       "Please verify your email first", NoToken, NoUser))
            ELSE IF ~comparePassword(store[id], req.password)
            THEN Reply(store, Response("login", req, 401,
                       "Invalid credentials", NoToken, NoUser))
            ELSE Reply(store, Response("login", req, 200,
                       "Login successful", generateToken(id, t), id))

\* forgot-password that restores the document when the mail fails
forgotRollsBack(store, req, code, mailOk, t) ==
    IF req.email = NoEmail
    THEN Reply(store, Response("forgot-password", req, 400,
               "Please provide email", NoToken, NoUser))
    ELSE LET id == findOneByEmail(store, req.email)
         IN IF id = NoUser
            THEN Reply(store, Response("forgot-password", req, 404,
                       "No account found with that email", NoToken, NoUser))
            ELSE LET saved == [store EXCEPT
                                 ![id] = preSave(generateResetOTP(@, code, t),
                                                 FALSE)]
                 IN IF ~mailOk
                    THEN Reply(store, Response("forgot-password", req, 500,
                               "Failed to process request", NoToken, NoUser))
                    ELSE Reply(saved, Response("forgot-password", req, 200,
                               "Password reset OTP sent to your email",
                               NoToken, NoUser))

\* router.post('/forgot-password')
forgotHandler(store, req, code, mailOk, t) ==
    IF req.email = NoEmail
    THEN Reply(store, Response("forgot-password", req, 400,
               "Please provide email", NoToken, NoUser))
    ELSE LET id == findOneByEmail(store, req.email)
         IN IF id = NoUser
            THEN Reply(store, Response("forgot-password", req, 404,
                       "No account found with that email", NoToken, NoUser))
            ELSE LET saved == [store EXCEPT
                                 ![id] = preSave(generateResetOTP(@, code, t),
                                                 FALSE)]
                 IN IF ~mailOk
                    THEN Reply(saved, Response("forgot-password", req, 500,
                               "Failed to process request", NoToken, NoUser))
                    ELSE Reply(saved, Response("forgot-password", req, 200,
                               "Password reset OTP sent to your email",
                               NoToken, NoUser))

\* router.post('/reset-password'): the checks made on the document found
resetChecks(store, id, req, t) ==
    IF id = NoUser THEN [status |-> 404, text |-> "User not found"]
    ELSE IF store[id].resetPasswordOTP # req.otp
    THEN [status |-> 400, text |-> "Invalid OTP"]
    ELSE IF IsPast(t, store[id].resetPasswordExpires)
    THEN [status |-> 400, text |-> "OTP has expired. Please request a new one."]
    ELSE [status |-> 200,
          text |-> "Password reset successful! You can now login with your new password."]

\* a save that stores the new password as it was sent
resetSaveUnhashed(store, id, newPassword) ==
    [store EXCEPT ![id] = [@ EXCEPT !.password = newPassword,
                                    !.resetPasswordOTP = Undefined,
                                    !.resetPasswordExpires = NoDate]]

\* user.password = newPassword; user.resetPasswordOTP = undefined;
\* user.resetPasswordExpires = undefined; await user.save()
resetSave(store, id, newPassword) ==
    [store EXCEPT ![id] = preSave([@ EXCEPT !.password = newPassword,
                                            !.resetPasswordOTP = Undefined,
                                            !.resetPasswordExpires = NoDate],
                                  TRUE)]

\* a /reset-password that withdraws the stored code when a wrong one is sent
resetBurnsCode(store, req, t) ==
    IF req.email = NoEmail \/ req.otp = Undefined \/ req.newPassword = ""
    THEN Reply(store, Response("reset-password", req, 400,
               "Please provide email, OTP, and new password", NoToken, NoUser))
    ELSE IF Len(req.newPassword) < 6
    THEN Reply(store, Response("reset-password", req, 400,
               "Password must be at least 6 characters", NoToken, NoUser))
    ELSE LET id == findOneByEmail(store, req.email)
             c == resetChecks(store, id, req, t)
         IN IF c.text = "Invalid OTP"
            THEN Reply([store EXCEPT ![id] =
                           [@ EXCEPT !.resetPasswordOTP = Undefined,
                                     !.resetPasswordExpires = NoDate]],
                       Response("reset-password", req, c.status, c.text,
                                NoToken, NoUser))
            ELSE IF c.status # 200
            THEN Reply(store, Response("reset-password", req, c.status, c.text,
                       NoToken, NoUser))
            ELSE Reply(resetSave(store, id, req.newPassword),
                       Response("reset-password", req, 200, c.text,
                                NoToken, NoUser))

\* router.post('/reset-password')
resetHandler(store, req, t) ==
    IF req.email = NoEmail \/ req.otp = Undefined \/ req.newPassword = ""
    THEN Reply(store, Response("reset-password", req, 400,
               "Please provide email, OTP, and new password", NoToken, NoUser))
    ELSE IF Len(req.newPassword) < 6
    THEN Reply(store, Response("reset-password", req, 400,
               "Password must be at least 6 characters", NoToken, NoUser))
    ELSE LET id == findOneByEmail(store, req.email)
             c == resetChecks(store, id, req, t)
         IN IF c.status # 200
            THEN Reply(store, Response("reset-password", req, c.status, c.text,
                       NoToken, NoUser))
            ELSE Reply(resetSave(store, id, req.newPassword),
                       Response("reset-password", req, 200, c.text,
                                NoToken, NoUser))

-----------------------------------------------------------------------------
(* middleware/auth.js *)

Deny(status, text) == [pass |-> FALSE, status |-> status, text |-> text,
                       user |-> NoUser]

\* protect without the isVerified check
protectUnverifiedToo(store, auth, t, dbFault) ==
    LET token == IF auth.scheme = "Bearer" THEN auth.token ELSE NoToken
    IN IF token = NoToken
       THEN Deny(401, "Not authorized to access this route")
       ELSE IF ~jwtVerifies(token, t) \/ dbFault
       THEN Deny(401, "Not authorized to access this route")
       ELSE IF findById(store, token.id) = NoUser
       THEN Deny(401, "User no longer exists")
       ELSE [pass |-> TRUE, status |-> 0, text |-> "", user |-> token.id]

\* protect that tells a lapsed token from the other failures
protectTellsExpired(store, auth, t, dbFault) ==
    LET token == IF auth.scheme = "Bearer" THEN auth.token ELSE NoToken
    IN IF token = NoToken
       THEN Deny(401, "Not authorized to access this route")
       ELSE IF token.kind = "jwt" /\ token.sig = "server" /\ ~jwtVerifies(token, t)
       THEN Deny(401, "jwt expired")
       ELSE IF ~jwtVerifies(token, t) \/ dbFault
       THEN Deny(401, "Not authorized to access this route")
       ELSE IF findById(store, token.id) = NoUser
       THEN Deny(401, "User no longer exists")
       ELSE IF ~store[token.id].isVerified
       THEN Deny(401, "Please verify your email first")
       ELSE [pass |-> TRUE, status |-> 0, text |-> "", user |-> token.id]

\* exports.protect: pass = next() was called, with req.user = user;
\* dbFault = User.findById rejected
protect(store, auth, t, dbFault) ==
    LET token == IF auth.scheme = "Bearer" THEN auth.token ELSE NoToken
    IN IF token = NoToken
       THEN Deny(401, "Not authorized to access this route")
       ELSE IF ~jwtVerifies(token, t) \/ dbFault
       THEN Deny(401, "Not authorized to access this route")
       ELSE IF findById(store, token.id) = NoUser
       THEN Deny(401, "User no longer exists")
       ELSE IF ~store[token.id].isVerified
       THEN Deny(401, "Please verify your email first")
       ELSE [pass |-> TRUE, status |-> 0, text |-> "", user |-> token.id]

\* router.get('/me', protect, ...)
meHandler(store, req, t, dbFault) ==
    LET g == protect(store, req.auth, t, dbFault)
    IN IF ~g.pass
       THEN Reply(store, Response("me", req, g.status, g.text, NoToken, NoUser))
       ELSE Reply(store, Response("me", req, 200, "", NoToken, g.user))

-----------------------------------------------------------------------------
(* models/Transaction.js *)

\* a JSON value sent as amount: a number, or text that is no number
Num(n) == [num |-> TRUE, val |-> n]
NotANumber == [num |-> FALSE, val |-> 0]

Has(body, f) == f \in DOMAIN body

\* !value for a body field holding text
Truthy(body, f) == Has(body, f) /\ body[f] # ""
\* text of a category or a description: a sequence of characters; !value
\* for it, and the value of a path that was never set
NoText == <<>>
UndefinedText == <<Undefined>>
TruthyText(body, f) == Has(body, f) /\ body[f] # NoText
Food == <<"F", "o", "o", "d">>
FoodPadded == <<" ", "F", "o", "o", "d", " ">>
Note == <<"t", "e", "a">>
NotePadded == <<"t", "e", "a", " ">>
\* !amount: 0 is falsy, any other number and any non-empty text is not
TruthyAmount(body) ==
    Has(body, "amount") /\ (body.amount.num => body.amount.val # 0)

TxTypes == {"income", "expense"}

\* the schema's casts and validators, run by save(): user required; type
\* required, one of the enum; amount required, a Number, min 0; category
\* and date required
TxValid(doc) ==
    /\ doc.user # NoUser
    /\ doc.type \in TxTypes
    /\ doc.amount.num
    /\ doc.amount.val >= 0
    /\ trim(doc.category) # NoText
    /\ doc.date # NoDate

\* a schema without trim: true on category and description
StoredUntrimmed(doc) == [doc EXCEPT !.amount = doc.amount.val]

\* the document as stored: amount cast to a Number, category and
\* description trimmed (trim: true)
Stored(doc) ==
    [doc EXCEPT !.amount = doc.amount.val,
                !.category = trim(doc.category),
                !.description = trim(doc.description)]
\* a stored document as the handler holds it before Object.assign
Loaded(doc) == [doc EXCEPT !.amount = Num(doc.amount)]

TxIds(store) == {d._id : d \in store}
\* a req.params.id that is no ObjectId: casting it for the query throws
MalformedId == 0
CastErrorText == "Cast to ObjectId failed"
TxById(store, id) == CHOOSE d \in store : d._id = id

-----------------------------------------------------------------------------
(* routes/transactions.js, behind router.use(protect) *)

LedgerReply(store, nextId, res) == [txs |-> store, nextTxId |-> nextId, res |-> res]

Refused(store, nextId, op, req, g) ==
    LedgerReply(store, nextId, Response(op, req, g.status, g.text, NoToken, NoUser))

\* Transaction.find(query): the caller's documents (user: req.user._id)
OwnedBy(store, uid) == {d \in store : d.user = uid}

\* the ways to order the documents that share their date with another one:
\* the sort has no second key
TieBreaks(docs) ==
    LET tied == {d._id : d \in {x \in docs : \E y \in docs : y # x /\ y.date = x.date}}
    IN {tb \in [tied -> 1..Cardinality(tied)] :
           \A i, j \in tied : i # j => tb[i] # tb[j]}

\* the documents in descending date, those of one date as tb orders them
OrderedBy(docs, tb) ==
    LET before(d) == {e \in docs : \/ e.date > d.date
                                   \/ e.date = d.date /\ e # d
                                      /\ tb[e._id] < tb[d._id]}
        place == [d \in docs |-> Cardinality(before(d)) + 1]
    IN [i \in 1..Cardinality(docs) |-> CHOOSE d \in docs : place[d] = i]

\* the orders .sort({ date: -1 }) may return a set of documents in
SortedByDateDesc(docs) == {OrderedBy(docs, tb) : tb \in TieBreaks(docs)}

\* a query without .limit(100)
LimitNone(sq) == sq

\* .limit(100)
LIST_LIMIT == 100
Limit(sq) == SubSeq(sq, 1, IF Len(sq) < LIST_LIMIT THEN Len(sq) ELSE LIST_LIMIT)

\* the query router.get('/') builds from req.query
Matches(d, q) ==
    /\ Truthy(q, "type") => d.type = q.type
    /\ TruthyText(q, "category") => d.category = trim(q.category)
    /\ Has(q, "startDate") => d.date >= q.startDate
    /\ Has(q, "endDate") => d.date <= q.endDate

\* what Transaction.find(query) selects for router.get('/')
listFound(store, uid, q) == {d \in OwnedBy(store, uid) : Matches(d, q)}

\* router.get('/'): user-scoped list; order is the order the sort returned
listHandler(store, nextId, uid, req, order) ==
    LedgerReply(store, nextId,
        FullResponse("list", req, 200, "", NoToken, uid, Limit(order)))

\* router.get('/:id'): Transaction.findById(req.params.id)
getByIdHandler(store, nextId, uid, req) ==
    IF req.id = MalformedId
    THEN LedgerReply(store, nextId,
             Response("get", req, 500, CastErrorText, NoToken, uid))
    ELSE IF req.id \notin TxIds(store)
    THEN LedgerReply(store, nextId,
             Response("get", req, 404, "Transaction not found", NoToken, uid))
    ELSE LedgerReply(store, nextId,
             FullResponse("get", req, 200, "", NoToken, uid,
                          <<TxById(store, req.id)>>))

RECURSIVE SumAmounts(_, _, _)
\* docs.reduce((sum, t) => sum + t.amount, 0), over the documents whose _id
\* is in lo..hi
SumAmounts(docs, lo, hi) ==
    IF lo > hi THEN 0
    ELSE IF lo = hi
    THEN LET at == {d \in docs : d._id = lo}
         IN IF at = {} THEN 0 ELSE (CHOOSE d \in at : TRUE).amount
    ELSE LET mid == (lo + hi) \div 2
         IN SumAmounts(docs, lo, mid) + SumAmounts(docs, mid + 1, hi)

\* a summary of the documents the list returns
summaryOfListed(store, nextId, uid, req) ==
    LET listed == Limit(CHOOSE sq \in SortedByDateDesc(OwnedBy(store, uid)) : TRUE)
        mine == {listed[i] : i \in DOMAIN listed}
        totalIncome == SumAmounts({d \in mine : d.type = "income"}, 1, nextId - 1)
        totalExpenses == SumAmounts({d \in mine : d.type = "expense"}, 1, nextId - 1)
    IN LedgerReply(store, nextId,
           FullResponse("summary", req, 200, "", NoToken, uid,
               <<[totalIncome |-> totalIncome,
                  totalExpenses |-> totalExpenses,
                  balance |-> totalIncome - totalExpenses,
                  transactionCount |-> Cardinality(mine)]>>))

\* router.get('/stats/summary')
summaryHandler(store, nextId, uid, req) ==
    LET mine == OwnedBy(store, uid)
        totalIncome == SumAmounts({d \in mine : d.type = "income"}, 1, nextId - 1)
        totalExpenses == SumAmounts({d \in mine : d.type = "expense"}, 1, nextId - 1)
    IN LedgerReply(store, nextId,
           FullResponse("summary", req, 200, "", NoToken, uid,
               <<[totalIncome |-> totalIncome,
                  totalExpenses |-> totalExpenses,
                  balance |-> totalIncome - totalExpenses,
                  transactionCount |-> Cardinality(mine)]>>))

\* router.post('/'): create for the logged-in user
createHandler(store, nextId, uid, req) ==
    LET body == req.body
    IN IF ~Truthy(body, "type") \/ ~TruthyAmount(body)
          \/ ~TruthyText(body, "category") \/ ~Has(body, "date")
       THEN LedgerReply(store, nextId, Response("create", req, 400,
                "Please provide type, amount, category, and date", NoToken, uid))
       ELSE LET doc == [_id |-> nextId,
                        user |-> uid,
                        type |-> body.type,
                        amount |-> body.amount,
                        category |-> body.category,
                        date |-> body.date,
                        description |-> IF Has(body, "description")
                                        THEN body.description ELSE UndefinedText]
            IN IF ~TxValid(doc)
               THEN LedgerReply(store, nextId, Response("create", req, 400,
                        "Transaction validation failed", NoToken, uid))
               ELSE LedgerReply(store \cup {Stored(doc)}, nextId + 1,
                        FullResponse("create", req, 201,
                            "Transaction created successfully", NoToken, uid,
                            <<Stored(doc)>>))

\* the schema paths Object.assign(transaction, req.body) can set
TxPaths == {"user", "type", "amount", "category", "date", "description"}

\* Object.assign(transaction, req.body)
Assigned(doc, body) ==
    [f \in DOMAIN doc |-> IF f \in TxPaths /\ Has(body, f) THEN body[f] ELSE doc[f]]

\* findOne({ _id }) without the owner in the filter: an id of another
\* identity's entry is told apart from an id of no entry
updateTellsApart(store, nextId, uid, req) ==
    IF req.id = MalformedId
    THEN LedgerReply(store, nextId, Response("update", req, 400,
             CastErrorText, NoToken, uid))
    ELSE IF req.id \notin TxIds(store)
    THEN LedgerReply(store, nextId, Response("update", req, 404,
             "Transaction not found", NoToken, uid))
    ELSE IF req.id \notin TxIds(OwnedBy(store, uid))
    THEN LedgerReply(store, nextId, Response("update", req, 403,
             "Not authorized to update this transaction", NoToken, uid))
    ELSE LET old == TxById(store, req.id)
             doc == Assigned(Loaded(old), req.body)
         IN IF ~TxValid(doc)
            THEN LedgerReply(store, nextId, Response("update", req, 400,
                     "Transaction validation failed", NoToken, uid))
            ELSE LedgerReply((store \ {old}) \cup {Stored(doc)}, nextId,
                     FullResponse("update", req, 200,
                         "Transaction updated successfully", NoToken, uid,
                         <<Stored(doc)>>))

\* router.put('/:id'): findOne({ _id, user }), Object.assign, save
updateHandler(store, nextId, uid, req) ==
    IF req.id = MalformedId
    THEN LedgerReply(store, nextId, Response("update", req, 400,
             CastErrorText, NoToken, uid))
    ELSE IF req.id \notin TxIds(OwnedBy(store, uid))
    THEN LedgerReply(store, nextId, Response("update", req, 404,
             "Transaction not found", NoToken, uid))
    ELSE LET old == TxById(store, req.id)
             doc == Assigned(Loaded(old), req.body)
         IN IF ~TxValid(doc)
            THEN LedgerReply(store, nextId, Response("update", req, 400,
                     "Transaction validation failed", NoToken, uid))
            ELSE LedgerReply((store \ {old}) \cup {Stored(doc)}, nextId,
                     FullResponse("update", req, 200,
                         "Transaction updated successfully", NoToken, uid,
                         <<Stored(doc)>>))

\* findOneAndDelete({ _id }) without the owner in the filter
deleteAnyOwner(store, nextId, uid, req) ==
    IF req.id \notin TxIds(store)
    THEN LedgerReply(store, nextId, Response("delete", req, 404,
             "Transaction not found", NoToken, uid))
    ELSE LET old == TxById(store, req.id)
         IN LedgerReply(store \ {old}, nextId,
                FullResponse("delete", req, 200,
                    "Transaction deleted successfully", NoToken, uid, <<old>>))

\* findOne in place of findOneAndDelete: the entry is returned and kept
deleteKeepsEntry(store, nextId, uid, req) ==
    IF req.id = MalformedId
    THEN LedgerReply(store, nextId, Response("delete", req, 500,
             CastErrorText, NoToken, uid))
    ELSE IF req.id \notin TxIds(OwnedBy(store, uid))
    THEN LedgerReply(store, nextId, Response("delete", req, 404,
             "Transaction not found", NoToken, uid))
    ELSE LedgerReply(store, nextId,
             FullResponse("delete", req, 200,
                 "Transaction deleted successfully", NoToken, uid,
                 <<TxById(store, req.id)>>))

\* router.delete('/:id'): findOneAndDelete({ _id, user })
deleteHandler(store, nextId, uid, req) ==
    IF req.id = MalformedId
    THEN LedgerReply(store, nextId, Response("delete", req, 500,
             CastErrorText, NoToken, uid))
    ELSE IF req.id \notin TxIds(OwnedBy(store, uid))
    THEN LedgerReply(store, nextId, Response("delete", req, 404,
             "Transaction not found", NoToken, uid))
    ELSE LET old == TxById(store, req.id)
         IN LedgerReply(store \ {old}, nextId,
                FullResponse("delete", req, 200,
                    "Transaction deleted successfully", NoToken, uid, <<old>>))

-----------------------------------------------------------------------------
(* What a client can send *)

\* the _ids a token can name: those the collection can hold, and one more
TokenIds == 1..(Cardinality({CastEmail(e) : e \in RegisterEmails}) + 1)

\* tokens the server signed at an earlier instant (0: before it started),
\* tokens signed with another key, and text that is no token
TokenInputs(t) ==
    LET iats == {0} \cup {i \in Instants : i <= t}
    IN {generateToken(id, i) : id \in TokenIds, i \in iats}
       \cup {[generateToken(id, t) EXCEPT !.sig = "forged"] : id \in TokenIds}
       \cup {Garbage}

AuthInputs(t) ==
    {NoAuth, Bearer(NoToken)}
    \cup {Bearer(tok) : tok \in TokenInputs(t)}
    \cup {[scheme |-> "Basic", token |-> tok] : tok \in {generateToken(1, t)}}

RegisterReqs ==
    {[NoReq EXCEPT !.name = "Alice", !.email = e, !.password = p] :
        e \in RegisterEmails, p \in {"secret1", "short"}}
    \cup {[NoReq EXCEPT !.name = "", !.email = EmailA, !.password = "secret1"],
          [NoReq EXCEPT !.name = "Alice", !.email = NoEmail, !.password = "secret1"],
          [NoReq EXCEPT !.name = "Alice", !.email = EmailA, !.password = ""],
          [NoReq EXCEPT !.name = "Alice", !.email = EmailMalformed,
                        !.password = "secret1"]}

VerifyReqs ==
    {[NoReq EXCEPT !.email = e, !.otp = o] : e \in EmailInputs, o \in Codes}
    \cup {[NoReq EXCEPT !.email = EmailA],
          [NoReq EXCEPT !.otp = "123456"]}

EmailReqs == {[NoReq EXCEPT !.email = e] : e \in EmailInputs \cup {NoEmail}}

LoginReqs ==
    {[NoReq EXCEPT !.email = e, !.password = p] :
        e \in EmailInputs, p \in {"secret1", "secret2"}}
    \cup {[NoReq EXCEPT !.email = EmailA],
          [NoReq EXCEPT !.password = "secret1"]}

ResetReqs ==
    {[NoReq EXCEPT !.email = e, !.otp = o, !.newPassword = p] :
        e \in EmailInputs, o \in Codes, p \in {"secret2", "short"}}
    \cup {[NoReq EXCEPT !.email = EmailA, !.otp = "123456"],
          [NoReq EXCEPT !.email = EmailA, !.newPassword = "secret2"],
          [NoReq EXCEPT !.otp = "123456", !.newPassword = "secret2"]}

\* storeFault: User.findById rejects while the request is served
MeReqs(t) ==
    {[NoReq EXCEPT !.auth = a, !.storeFault = f] :
        a \in AuthInputs(t), f \in BOOLEAN}

-----------------------------------------------------------------------------
(* The accounts service: every handler runs to completion *)

Init ==
    /\ users = <<>>
    /\ txs = {}
    /\ nextTxId = 1
    /\ now = StartTime
    /\ inflight = <<>>
    /\ last = NoResponse
    /\ trace = <<>>
    /\ transactions = <<>>

Handled(r) ==
    /\ users' = r.users
    /\ last' = r.res
    /\ UNCHANGED <<txs, nextTxId, now, inflight, trace, transactions>>

Register ==
    \E req \in RegisterReqs, c \in Codes, mailOk \in BOOLEAN :
        Handled(registerHandler(users, req, c, mailOk, now))

Verify ==
    \E req \in VerifyReqs : Handled(verifyHandler(users, req, now))

ResendOtp ==
    \E req \in EmailReqs, c \in Codes, mailOk \in BOOLEAN :
        Handled(resendHandler(users, req, c, mailOk, now))

Login ==
    \E req \in LoginReqs : Handled(loginHandler(users, req, now))

ForgotPassword ==
    \E req \in EmailReqs, c \in Codes, mailOk \in BOOLEAN :
        Handled(forgotHandler(users, req, c, mailOk, now))

ResetPassword ==
    \E req \in ResetReqs : Handled(resetHandler(users, req, now))

GetMe ==
    \E req \in MeReqs(now) :
        Handled(meHandler(users, req, now, req.storeFault))

\* time passes between requests
Tick ==
    /\ \E t \in Instants : t > now /\ now' = t
    /\ last' = Response("tick", NoReq, 0, "", NoToken, NoUser)
    /\ UNCHANGED <<users, txs, nextTxId, inflight, trace, transactions>>

Next ==
    \/ Register
    \/ Verify
    \/ ResendOtp
    \/ Login
    \/ ForgotPassword
    \/ ResetPassword
    \/ GetMe
    \/ Tick

Spec == Init /\ [][Next]_vars


-----------------------------------------------------------------------------
(* The ledger service: two verified accounts, the transaction routes        *)

VerifiedUser(email) ==
    [NewUser("Alice", email, bcryptHash("secret1")) EXCEPT !.isVerified = TRUE]

LedgerUsers == <<VerifiedUser(EmailA), VerifiedUser(EmailB)>>

\* the callers: a fresh token of each account
CallerAuths == {Bearer(generateToken(id, StartTime)) : id \in UserIds(LedgerUsers)}
\* headers protect refuses: none, a lapsed token, a forged one, one naming
\* an account that does not exist
BadAuths ==
    {NoAuth,
     Bearer(generateToken(1, 0)),
     Bearer([generateToken(1, StartTime) EXCEPT !.sig = "forged"]),
     Bearer(generateToken(Len(LedgerUsers) + 1, StartTime))}

\* the ids a request can name: every id ever assigned, one never assigned,
\* and text that is no id
IdInputs == {MalformedId} \cup 1..(MaxTx + 1)

CreateBodies ==
    {[type |-> ty, amount |-> Num(50), category |-> Food, date |-> 1] :
        ty \in TxTypes}
    \cup {[type |-> "salary", amount |-> Num(50), category |-> Food, date |-> 1],
          [type |-> "expense", amount |-> Num(0), category |-> Food, date |-> 1],
          [type |-> "expense", amount |-> Num(-5), category |-> Food, date |-> 1],
          [type |-> "expense", amount |-> NotANumber, category |-> Food, date |-> 1],
          [type |-> "expense", amount |-> Num(50), date |-> 1],
          [type |-> "expense", amount |-> Num(50), category |-> Food],
          [type |-> "income", amount |-> Num(50), category |-> Food, date |-> 1,
           description |-> Note],
          [type |-> "expense", amount |-> Num(50), category |-> FoodPadded,
           date |-> 1, description |-> NotePadded]}

UpdateBodies ==
    {<<>>,
     [amount |-> Num(0)],
     [amount |-> Num(-5)],
     [type |-> "income"],
     [type |-> "salary"],
     [category |-> NoText]}
    \cup {[user |-> id] : id \in UserIds(LedgerUsers)}

Queries == {<<>>, [type |-> "income"], [category |-> Food, startDate |-> 1, endDate |-> 1]}

\* with(reqs, auths): every request of reqs under every header of auths
WithAuth(reqs, auths) == {[r EXCEPT !.auth = a] : r \in reqs, a \in auths}
\* every request of reqs as each caller, and one of them under each bad header
Authed(reqs) ==
    WithAuth(reqs, CallerAuths) \cup WithAuth({CHOOSE r \in reqs : TRUE}, BadAuths)

InitLedger ==
    /\ users = LedgerUsers
    /\ txs = {}
    /\ nextTxId = 1
    /\ now = StartTime
    /\ inflight = <<>>
    /\ last = NoResponse
    /\ trace = <<>>
    /\ transactions = <<>>

LedgerHandled(r) ==
    /\ txs' = r.txs
    /\ nextTxId' = r.nextTxId
    /\ last' = r.res
    /\ UNCHANGED <<users, now, inflight, trace, transactions>>

\* router.use(protect): the handler's reply when protect called next()
Protected(op, req, g, reply) ==
    IF g.pass THEN reply ELSE Refused(txs, nextTxId, op, req, g)

List ==
    \E req \in Authed({[NoReq EXCEPT !.query = q] : q \in Queries}) :
        LET g == protect(users, req.auth, now, FALSE)
        IN \E order \in SortedByDateDesc(listFound(txs, g.user, req.query)) :
            LedgerHandled(Protected("list", req, g,
                listHandler(txs, nextTxId, g.user, req, order)))

GetById ==
    \E req \in Authed({[NoReq EXCEPT !.id = i] : i \in IdInputs}) :
        LET g == protect(users, req.auth, now, FALSE)
        IN LedgerHandled(Protected("get", req, g,
               getByIdHandler(txs, nextTxId, g.user, req)))

Create ==
    /\ nextTxId <= MaxTx
    /\ \E req \in Authed({[NoReq EXCEPT !.body = b] : b \in CreateBodies}) :
        LET g == protect(users, req.auth, now, FALSE)
        IN LedgerHandled(Protected("create", req, g,
               createHandler(txs, nextTxId, g.user, req)))

Update ==
    \E req \in Authed({[NoReq EXCEPT !.id = i, !.body = b] :
                          i \in IdInputs, b \in UpdateBodies}) :
        LET g == protect(users, req.auth, now, FALSE)
        IN LedgerHandled(Protected("update", req, g,
               updateHandler(txs, nextTxId, g.user, req)))

Delete ==
    \E req \in Authed({[NoReq EXCEPT !.id = i] : i \in IdInputs}) :
        LET g == protect(users, req.auth, now, FALSE)
        IN LedgerHandled(Protected("delete", req, g,
               deleteHandler(txs, nextTxId, g.user, req)))

Summary ==
    \E req \in Authed({NoReq}) :
        LET g == protect(users, req.auth, now, FALSE)
        IN LedgerHandled(Protected("summary", req, g,
               summaryHandler(txs, nextTxId, g.user, req)))

NextLedger ==
    \/ List
    \/ GetById
    \/ Create
    \/ Update
    \/ Delete
    \/ Summary

SpecLedger == InitLedger /\ [][NextLedger]_vars

-----------------------------------------------------------------------------
(* The ledger service on a large ledger: the first account holds about a    *)
(* hundred transactions, the second one                                      *)

\* the transaction with _id id: the date is the id, but for the two oldest,
\* which are of one date
BulkEntry(id, uid) ==
    [_id |-> id,
     user |-> uid,
     type |-> IF id % 2 = 0 THEN "income" ELSE "expense",
     amount |-> id,
     category |-> Food,
     date |-> IF id = 1 THEN 2 ELSE id,
     description |-> UndefinedText]

Bulk(n) == {BulkEntry(id, 1) : id \in 1..n} \cup {BulkEntry(n + 1, 2)}

InitBulk ==
    /\ users = LedgerUsers
    /\ \E n \in (MaxBulk - 2)..MaxBulk :
          /\ txs = Bulk(n)
          /\ nextTxId = n + 2
    /\ now = StartTime
    /\ inflight = <<>>
    /\ last = NoResponse
    /\ trace = <<>>
    /\ transactions = <<>>

NextBulk ==
    \/ List
    \/ Delete
    \/ Summary

SpecBulk == InitBulk /\ [][NextBulk]_vars

-----------------------------------------------------------------------------
(* The accounts service with handlers interleaved: a handler that reaches   *)
(* await user.save() is suspended there, and other requests are handled     *)
(* before its save runs                                                     *)

\* a handler suspended at its save: the request, the _id findOne returned,
\* the document it is about to insert (register)
Suspended(op, req, id, doc) == [op |-> op, req |-> req, id |-> id, doc |-> doc]

NoDoc == NewUser("", NoEmail, "")

ConcRegisterReqs ==
    {[NoReq EXCEPT !.name = "Alice", !.email = e, !.password = "secret1"] :
        e \in RegisterEmails}
ConcVerifyReqs == {[NoReq EXCEPT !.email = EmailA, !.otp = o] : o \in Codes}
ConcResetReqs ==
    {[NoReq EXCEPT !.email = EmailA, !.otp = o, !.newPassword = "secret2"] :
        o \in Codes}

Suspend(s) ==
    /\ Len(inflight) < MaxInflight
    /\ inflight' = Append(inflight, s)
    /\ UNCHANGED <<users, txs, nextTxId, now, last, trace, transactions>>

\* the request at position k resumes
Resume(k, r) ==
    /\ inflight' = [i \in 1..(Len(inflight) - 1) |->
                       IF i < k THEN inflight[i] ELSE inflight[i + 1]]
    /\ users' = r.users
    /\ last' = r.res
    /\ UNCHANGED <<txs, nextTxId, now, trace, transactions>>

RegisterBegin ==
    \E req \in ConcRegisterReqs, c \in Codes :
        LET f == registerFind(users, req)
        IN IF f.status # 0
           THEN Handled(Reply(users, Response("register", req, f.status,
                                              f.text, NoToken, NoUser)))
           ELSE Suspend(Suspended("register", req, NoUser,
                    generateOTP(NewUser(req.name, req.email, req.password),
                                c, now)))

RegisterEnd ==
    \E k \in DOMAIN inflight, mailOk \in BOOLEAN :
        /\ inflight[k].op = "register"
        /\ Resume(k, registerSave(users, inflight[k].req, inflight[k].doc, mailOk))

VerifyBegin ==
    \E req \in ConcVerifyReqs :
        LET id == findOneByEmail(users, req.email)
            c == verifyChecks(users, id, req, now)
        IN IF c.status # 200
           THEN Handled(Reply(users, Response("verify", req, c.status, c.text,
                                              NoToken, NoUser)))
           ELSE Suspend(Suspended("verify", req, id, NoDoc))

VerifyEnd ==
    \E k \in DOMAIN inflight :
        /\ inflight[k].op = "verify"
        /\ Resume(k, Reply(verifySave(users, inflight[k].id),
                     Response("verify", inflight[k].req, 200,
                              "Email verified successfully!",
                              generateToken(inflight[k].id, now),
                              inflight[k].id)))

ResetBegin ==
    \E req \in ConcResetReqs :
        LET id == findOneByEmail(users, req.email)
            c == resetChecks(users, id, req, now)
        IN IF c.status # 200
           THEN Handled(Reply(users, Response("reset-password", req, c.status,
                                              c.text, NoToken, NoUser)))
           ELSE Suspend(Suspended("reset-password", req, id, NoDoc))

ResetEnd ==
    \E k \in DOMAIN inflight :
        /\ inflight[k].op = "reset-password"
        /\ Resume(k, Reply(resetSave(users, inflight[k].id,
                                     inflight[k].req.newPassword),
                     Response("reset-password", inflight[k].req, 200,
                              "Password reset successful! You can now login with your new password.",
                              NoToken, NoUser)))

NextConc ==
    \/ RegisterBegin
    \/ RegisterEnd
    \/ VerifyBegin
    \/ VerifyEnd
    \/ ForgotPassword
    \/ ResetBegin
    \/ ResetEnd

SpecConc == Init /\ [][NextConc]_vars

-----------------------------------------------------------------------------
(* One client running the scenario: register, login too early, verify with  *)
(* a wrong code, verify, login, create an expense, list, delete, list; the  *)
(* server draws the code, the mail may fail, time may pass between calls    *)

ScnAccount == [NoReq EXCEPT !.name = "Alice", !.email = EmailA, !.password = "secret1"]
ScnExpense == [type |-> "expense", amount |-> Num(50), category |-> Food, date |-> 1]

\* the call at position k of the script is answered
ScnAnswered(k, res) ==
    /\ Len(trace) = k - 1
    /\ last' = res
    /\ trace' = Append(trace, [res |-> res, at |-> now])
    /\ UNCHANGED <<now, inflight, transactions>>

ScnAccounts(k, r) ==
    /\ ScnAnswered(k, r.res)
    /\ users' = r.users
    /\ UNCHANGED <<txs, nextTxId>>

\* the ledger calls carry the token the login at position 5 returned
ScnAuth == Bearer(trace[5].res.token)

\* router.use(protect), then the handler's reply
ScnLedger(k, op, req, reply) ==
    LET g == protect(users, req.auth, now, FALSE)
        r == IF g.pass THEN reply ELSE Refused(txs, nextTxId, op, req, g)
    IN /\ ScnAnswered(k, r.res)
       /\ txs' = r.txs
       /\ nextTxId' = r.nextTxId
       /\ UNCHANGED users

ScnRegister ==
    \E c \in Codes, mailOk \in BOOLEAN :
        ScnAccounts(1, registerHandler(users, ScnAccount, c, mailOk, now))

ScnLoginEarly == ScnAccounts(2, loginHandler(users, ScnAccount, now))

\* a code other than the one that was mailed
ScnVerifyWrong ==
    \E o \in Codes :
        /\ Len(trace) = 2
        /\ o # users[findOneByEmail(users, EmailA)].otp
        /\ ScnAccounts(3, verifyHandler(users, [ScnAccount EXCEPT !.otp = o], now))

\* the code that was mailed
ScnVerify ==
    /\ Len(trace) = 3
    /\ ScnAccounts(4, verifyHandler(users,
           [ScnAccount EXCEPT !.otp = users[findOneByEmail(users, EmailA)].otp],
           now))

ScnLogin == ScnAccounts(5, loginHandler(users, ScnAccount, now))

ScnCreate ==
    /\ Len(trace) = 5
    /\ LET req == [NoReq EXCEPT !.body = ScnExpense, !.auth = ScnAuth]
           uid == protect(users, req.auth, now, FALSE).user
       IN ScnLedger(6, "create", req, createHandler(txs, nextTxId, uid, req))

ScnList ==
    \E k \in {7, 9} :
        /\ Len(trace) = k - 1
        /\ LET req == [NoReq EXCEPT !.auth = ScnAuth]
               uid == protect(users, req.auth, now, FALSE).user
           IN \E order \in SortedByDateDesc(listFound(txs, uid, req.query)) :
               ScnLedger(k, "list", req,
                         listHandler(txs, nextTxId, uid, req, order))

\* delete names the _id the create returned
ScnDelete ==
    /\ Len(trace) = 7
    /\ LET created == trace[6].res.data
           id == IF created = <<>> THEN MalformedId ELSE created[1]._id
           req == [NoReq EXCEPT !.id = id, !.auth = ScnAuth]
           uid == protect(users, req.auth, now, FALSE).user
       IN ScnLedger(8, "delete", req, deleteHandler(txs, nextTxId, uid, req))

ScnTick ==
    /\ \E t \in Instants : t > now /\ now' = t
    /\ UNCHANGED <<users, txs, nextTxId, inflight, last, trace, transactions>>

NextScenario ==
    \/ ScnRegister
    \/ ScnLoginEarly
    \/ ScnVerifyWrong
    \/ ScnVerify
    \/ ScnLogin
    \/ ScnCreate
    \/ ScnList
    \/ ScnDelete
    \/ ScnTick

SpecScenario == Init /\ [][NextScenario]_vars

-----------------------------------------------------------------------------
(* Properties of the ledger routes (SpecLedger) *)

\* the documents the last response carried
Returned(res) == {res.data[i] : i \in DOMAIN res.data}

\* C1: a list, update or delete made as identity A returns only entries that
\* A owned when the call was made, and leaves every entry owned by another
\* identity B in the store exactly as it was, also when the id is B's
C1_OwnerScopedCalls ==
    [][last'.op \in {"list", "update", "delete"} /\ last'.uid # NoUser =>
        /\ \A d \in Returned(last') :
              \E o \in txs : o._id = d._id /\ o.user = last'.uid
        /\ \A o \in txs : o.user # last'.uid => o \in txs'
      ]_vars

\* an update or delete made with the id of another identity's entry
C1_Witness ==
    /\ last.op \in {"update", "delete"}
    /\ last.uid # NoUser
    /\ last.status = 404
    /\ \E o \in txs : o._id = last.req.id /\ o.user # last.uid

\* C2: a read by id made as identity A never returns an entry owned by
\* another identity
C2_ReadByIdScoped ==
    last.op = "get" /\ last.uid # NoUser =>
        \A d \in Returned(last) : d.user = last.uid

\* C8: every stored entry has amount > 0, kind income or expense, and one
\* owner
C8_EntryInvariant ==
    \A d \in txs :
        /\ d.amount > 0
        /\ d.type \in TxTypes
        /\ d.user \in UserIds(users)

\* the answer to the last request with its id left out
Answer(res) == [status |-> res.status, text |-> res.text, data |-> res.data]

-----------------------------------------------------------------------------
(* Properties of the accounts routes and of protect (Spec) *)

\* the identity the last request's email names, in a given store
Target(store) == findOneByEmail(store, last.req.email)

\* C3: isVerified is false at registration, turns true only in a /verify
\* request for that identity whose code is the stored OTP and whose time is
\* not past the stored expiry, and never turns false again
C3_VerifiedOnlyByOtp ==
    [][\A i \in UserIds(users') :
          IF i \notin UserIds(users)
          THEN ~users'[i].isVerified
          ELSE /\ users[i].isVerified => users'[i].isVerified
               /\ ~users[i].isVerified /\ users'[i].isVerified =>
                     /\ last'.op = "verify"
                     /\ CastEmail(last'.req.email) = users[i].email
                     /\ last'.req.otp = users[i].otp
                     /\ now <= users[i].otpExpires
      ]_vars

\* an identity verified by the request just handled
C3_Witness ==
    /\ last.op = "verify"
    /\ last.status = 200
    /\ last.uid \in UserIds(users)
    /\ users[last.uid].isVerified

\* C4: login for an identity that is not verified fails and carries no
\* token, whether or not the password matches
C4_UnverifiedLoginFails ==
    /\ last.op = "login"
    /\ Target(users) # NoUser
    /\ ~users[Target(users)].isVerified
    => last.status # 200 /\ last.token = NoToken

\* a login with the right password for an identity that is not verified
C4_Witness ==
    /\ last.op = "login"
    /\ Target(users) # NoUser
    /\ ~users[Target(users)].isVerified
    /\ comparePassword(users[Target(users)], last.req.password)
    /\ last.status = 401

\* C5: protect lets a request through (here to the /me handler, which
\* answers 200 with the identity in req.user) only with a bearer token the
\* server signed, not lapsed, naming an existing verified identity, and then
\* req.user is that identity; every other request gets 401 and no handler
C5_ProtectGuards ==
    last.op = "me" =>
        LET tok == last.req.auth.token
        IN IF last.status = 200
           THEN /\ last.req.auth.scheme = "Bearer"
                /\ tok.kind = "jwt"
                /\ tok.sig = "server"
                /\ now \div 1000 < tok.exp
                /\ tok.id \in UserIds(users)
                /\ users[tok.id].isVerified
                /\ last.uid = tok.id
           ELSE last.status = 401 /\ last.uid = NoUser

\* a request let through by protect
C5_Witness ==
    /\ last.op = "me"
    /\ last.status = 200
    /\ last.uid \in UserIds(users)

\* C9: a login that names an unknown email, or a registered email with a
\* password that does not match, is answered 401 "Invalid credentials"
C9_GenericLoginFailure ==
    /\ last.op = "login"
    /\ last.req.email # NoEmail
    /\ last.req.password # ""
    /\ \/ Target(users) = NoUser
       \/ ~comparePassword(users[Target(users)], last.req.password)
    => last.status = 401 /\ last.text = "Invalid credentials"

\* C10: /verify fails with NotFound, then Conflict, then InvalidCode, then
\* Expired, in that order of precedence, and a failing call leaves the
\* identity store as it was
C10_VerifyFailureOrder ==
    [][last'.op = "verify" /\ last'.req.email # NoEmail
         /\ last'.req.otp # Undefined =>
        LET id == findOneByEmail(users, last'.req.email)
        IN /\ IF id = NoUser
              THEN last'.status = 404 /\ last'.text = "User not found"
              ELSE IF users[id].isVerified
              THEN last'.status = 400 /\ last'.text = "Email already verified"
              ELSE IF users[id].otp # last'.req.otp
              THEN last'.status = 400 /\ last'.text = "Invalid OTP"
              ELSE IF now > users[id].otpExpires
              THEN /\ last'.status = 400
                   /\ last'.text = "OTP has expired. Please request a new one."
              ELSE last'.status = 200
           /\ last'.status # 200 => users' = users
      ]_vars

\* the stored code presented after its window
C10_Witness ==
    /\ last.op = "verify"
    /\ last.status = 400
    /\ last.text = "OTP has expired. Please request a new one."
    /\ Target(users) # NoUser
    /\ users[Target(users)].otp = last.req.otp
    /\ now > users[Target(users)].otpExpires

-----------------------------------------------------------------------------
(* Properties of the interleaved accounts routes (SpecConc) *)

C7_OtpSingleUse ==
    [][last'.op \in {"verify", "reset-password"} /\ last'.status = 200
         /\ inflight' # inflight =>
        LET id == findOneByEmail(users, last'.req.email)
        IN IF last'.op = "verify"
           THEN users[id].otp = last'.req.otp
           ELSE users[id].resetPasswordOTP = last'.req.otp
      ]_vars

-----------------------------------------------------------------------------
(* Properties of the scripted client (SpecScenario) *)

\* the answer the scenario lists for the call at position k
ScnOutcome(k) ==
    LET res == trace[k].res
    IN CASE k = 1 -> res.status = 201
         [] k = 2 -> res.status = 401 /\ res.text = "Please verify your email first"
         [] k = 3 -> res.status = 400 /\ res.text = "Invalid OTP"
         [] k = 4 -> res.status = 200 /\ res.token # NoToken
         [] k = 5 -> res.status = 200 /\ res.token # NoToken
         [] k = 6 -> res.status = 201
         [] k = 7 -> /\ res.status = 200
                     /\ Len(res.data) = 1
                     /\ res.data[1] = trace[6].res.data[1]
                     /\ res.data[1].type = "expense"
                     /\ res.data[1].amount = 50
                     /\ res.data[1].category = Food
                     /\ res.data[1].date = 1
                     /\ res.data[1].user = trace[5].res.uid
         [] k = 8 -> res.status = 200 /\ res.data = trace[7].res.data
         [] k = 9 -> res.status = 200 /\ res.data = <<>>

\* C12: when the mail with the code is delivered and the code is presented
\* within its ten minutes, every call of the scenario is answered as listed:
\* 201, 401 unverified, 400 invalid code, 200 with a token, 200 with a token,
\* 201, a list of exactly the created entry, 200, an empty list
C12_Scenario ==
    /\ Len(trace) >= 1 => trace[1].res.status \in {201, 500}
    /\ /\ Len(trace) >= 1
       /\ trace[1].res.text # "Email could not be sent"
       /\ Len(trace) >= 4 => trace[4].at <= trace[1].at + OTP_WINDOW_MS
       => \A k \in 1..Len(trace) : ScnOutcome(k)

\* the scenario run to its end
C12_Witness ==
    /\ Len(trace) = 9
    /\ \A k \in 1..9 : ScnOutcome(k)
    /\ txs = {}

-----------------------------------------------------------------------------
(* Properties of the password and of the two code slots (Spec) *)

\* the secrets a client of the model ever sends
Secrets == {"secret1", "secret2", "short"}

\* what /login answers for an email and a secret in a given store
LoginStatus(store, email, secret) ==
    loginHandler(store, [NoReq EXCEPT !.email = email, !.password = secret],
                 now).res.status

\* the identity the request handled in this step names, before the step
Named == findOneByEmail(users, last'.req.email)

\* C13: a reset-password request that presents the stored reset code not
\* after its expiry, with a new password of 6 characters or more, is
\* answered 200, stores the hash of the new password and clears both reset
\* fields; a verified identity then logs in with the new password and with
\* no other
C13_ResetReplacesSecret ==
    [][/\ last'.op = "reset-password"
       /\ Named # NoUser
       /\ last'.req.otp # Undefined
       /\ users[Named].resetPasswordOTP = last'.req.otp
       /\ now <= users[Named].resetPasswordExpires
       /\ Len(last'.req.newPassword) >= 6
       => /\ last'.status = 200
          /\ users'[Named].password = bcryptHash(last'.req.newPassword)
          /\ users'[Named].password # last'.req.newPassword
          /\ users'[Named].resetPasswordOTP = Undefined
          /\ users'[Named].resetPasswordExpires = NoDate
          /\ users'[Named].isVerified =>
                \A p \in Secrets :
                    LoginStatus(users', last'.req.email, p) =
                        IF p = last'.req.newPassword THEN 200 ELSE 401
      ]_vars

\* a verified identity whose password was just replaced by another one
C13_Witness ==
    /\ last.op = "reset-password"
    /\ last.status = 200
    /\ users[Target(users)].isVerified
    /\ LoginStatus(users, last.req.email, last.req.newPassword) = 200
    /\ LoginStatus(users, last.req.email, "secret1") = 401

\* C14: the stored password is the hash, taken once, of the password sent at
\* registration or at the last successful reset; a step of any other request
\* (verify, resend-otp, forgot-password, login, me) leaves it as it is, so
\* login keeps accepting the password last set
C14_SecretHashedOnce ==
    [][\A i \in UserIds(users') :
          /\ users'[i].password \notin Secrets
          /\ IF i \notin UserIds(users)
             THEN /\ last'.op = "register"
                  /\ users'[i].password = bcryptHash(last'.req.password)
             ELSE IF last'.op = "reset-password" /\ last'.status = 200
                     /\ Named = i
             THEN users'[i].password = bcryptHash(last'.req.newPassword)
             ELSE /\ users'[i].password = users[i].password
                  /\ \A p \in Secrets :
                        comparePassword(users'[i], p) = comparePassword(users[i], p)
      ]_vars

\* a login accepted after a verify and a forgot-password saved the document
C14_Witness ==
    /\ last.op = "login"
    /\ last.status = 200
    /\ users[last.uid].isVerified
    /\ users[last.uid].resetPasswordOTP # Undefined

VerifyStatus(store, email, code) ==
    verifyHandler(store, [NoReq EXCEPT !.email = email, !.otp = code],
                  now).res.status
ResetStatus(store, email, code) ==
    resetHandler(store, [NoReq EXCEPT !.email = email, !.otp = code,
                                      !.newPassword = "secret2"],
                 now).res.status

\* C16: a resend-otp for an unverified identity, and a forgot-password for
\* any identity, leaves in the slot one code whose expiry is the time of the
\* request plus ten minutes, and of all codes only the one now stored is
\* accepted for that slot
C16_ReissueOverwrites ==
    [][/\ last'.op = "resend-otp" /\ Named # NoUser /\ ~users[Named].isVerified
          => /\ users'[Named].otp \in Codes
             /\ users'[Named].otpExpires = now + OTP_WINDOW_MS
             /\ \A o \in Codes :
                  (VerifyStatus(users', last'.req.email, o) = 200)
                      <=> (o = users'[Named].otp)
       /\ last'.op = "forgot-password" /\ Named # NoUser
          => /\ users'[Named].resetPasswordOTP \in Codes
             /\ users'[Named].resetPasswordExpires = now + OTP_WINDOW_MS
             /\ \A o \in Codes :
                  (ResetStatus(users', last'.req.email, o) = 200)
                      <=> (o = users'[Named].resetPasswordOTP)
      ]_vars

\* a code re-issued after the first one lapsed: the earlier window is over
\* and the slot holds a code with a new one
C16_Witness ==
    /\ last.op = "resend-otp"
    /\ last.status = 200
    /\ now > StartTime + OTP_WINDOW_MS
    /\ users[Target(users)].otpExpires = now + OTP_WINDOW_MS

\* C17: a register, resend-otp or verify step leaves the reset code and its
\* expiry of every identity as they were (unset for a new identity), and a
\* forgot-password or reset-password step leaves every verification code
\* and its expiry as they were
C17_SlotsIndependent ==
    [][\A i \in UserIds(users') :
          /\ last'.op \in {"register", "resend-otp", "verify"} =>
                IF i \in UserIds(users)
                THEN /\ users'[i].resetPasswordOTP = users[i].resetPasswordOTP
                     /\ users'[i].resetPasswordExpires = users[i].resetPasswordExpires
                ELSE /\ users'[i].resetPasswordOTP = Undefined
                     /\ users'[i].resetPasswordExpires = NoDate
          /\ last'.op \in {"forgot-password", "reset-password"} =>
                /\ i \in UserIds(users)
                /\ users'[i].otp = users[i].otp
                /\ users'[i].otpExpires = users[i].otpExpires
      ]_vars

\* a reset code issued while a verification code is pending
C17_Witness ==
    /\ last.op = "forgot-password"
    /\ last.status = 200
    /\ users[Target(users)].otp \in Codes
    /\ users[Target(users)].resetPasswordOTP \in Codes

-----------------------------------------------------------------------------
(* Properties of create, list and summary (SpecLedger, SpecBulk) *)

\* a body with kind, amount, category and date present, the kind one of the
\* two kinds and the amount a number that is not negative
WellFormedEntry(body) ==
    /\ Has(body, "type") /\ body.type \in TxTypes
    /\ Has(body, "amount") /\ body.amount.num /\ body.amount.val >= 0
    /\ Has(body, "category") /\ trim(body.category) # NoText
    /\ Has(body, "date")

\* C18: a create let through by protect is answered 201 exactly when kind,
\* amount, category and date are present and the amount is a number not
\* below 0, and then the store gains one entry with those fields owned by
\* the caller; otherwise it is answered 400 and the store is as it was
C18_CreateValidates ==
    [][last'.op = "create" /\ last'.uid # NoUser =>
        LET body == last'.req.body
        IN IF WellFormedEntry(body)
           THEN /\ last'.status = 201
                /\ \E d \in txs' \ txs :
                      /\ txs' = txs \cup {d}
                      /\ d.user = last'.uid
                      /\ d.type = body.type
                      /\ d.amount = body.amount.val
                      /\ d.category = trim(body.category)
                      /\ d.date = body.date
           ELSE last'.status = 400 /\ txs' = txs
      ]_vars

\* the caller's entries that pass every filter the query supplies
Filtered(store, uid, q) ==
    {d \in store :
        /\ d.user = uid
        /\ Has(q, "type") => d.type = q.type
        /\ Has(q, "category") => d.category = q.category
        /\ Has(q, "startDate") => d.date >= q.startDate
        /\ Has(q, "endDate") => d.date <= q.endDate}

\* C19: a list returns, without repetition and in descending date, the
\* caller's entries that pass every supplied filter: all of them when they
\* are 100 or fewer, and otherwise 100 of them that no entry left out comes
\* before
C19_ListExact ==
    last.op = "list" /\ last.uid # NoUser =>
        LET expected == Filtered(txs, last.uid, last.req.query)
            data == last.data
        IN /\ Len(data) = IF Cardinality(expected) < LIST_LIMIT
                          THEN Cardinality(expected) ELSE LIST_LIMIT
           /\ \A i \in DOMAIN data : data[i] \in expected
           /\ \A i, j \in DOMAIN data :
                 i < j => data[i] # data[j] /\ data[i].date >= data[j].date
           /\ \A d \in expected \ Returned(last) :
                 \A i \in DOMAIN data : data[i].date >= d.date

\* a list cut at 100 entries of a caller who owns more
C19_Witness ==
    /\ last.op = "list"
    /\ last.status = 200
    /\ Len(last.data) = LIST_LIMIT
    /\ Cardinality(Filtered(txs, last.uid, last.req.query)) > LIST_LIMIT

\* the sum of the amounts of a set of entries, counted unit by unit
Total(docs) ==
    Cardinality(UNION {{<<d._id, k>> : k \in 1..d.amount} : d \in docs})

\* C20: a summary returns as totalIncome and totalExpenses the sums of the
\* amounts of all the caller's income and expense entries, as balance their
\* difference, and as count the number of the caller's entries
C20_SummaryTotals ==
    last.op = "summary" /\ last.uid # NoUser =>
        LET mine == {d \in txs : d.user = last.uid}
            income == Total({d \in mine : d.type = "income"})
            expenses == Total({d \in mine : d.type = "expense"})
        IN /\ last.status = 200
           /\ last.data = <<[totalIncome |-> income,
                             totalExpenses |-> expenses,
                             balance |-> income - expenses,
                             transactionCount |-> Cardinality(mine)]>>

\* a summary over more entries than a list returns
C20_Witness ==
    /\ last.op = "summary"
    /\ last.status = 200
    /\ last.data[1].transactionCount > LIST_LIMIT
    /\ last.data[1].balance = last.data[1].totalIncome - last.data[1].totalExpenses

-----------------------------------------------------------------------------
(* The round trip of an entry (SpecLedger) *)

\* the entry a read by id returns to the caller of the step, after the step
ReadBack(id) ==
    getByIdHandler(txs', nextTxId', last'.uid, [NoReq EXCEPT !.id = id]).res.data

\* the note of a body, unset when the body has none
NoteOf(body) == IF Has(body, "description") THEN body.description ELSE UndefinedText

-----------------------------------------------------------------------------
(* Properties of protect's refusals (Spec) *)

\* the token protect extracts from the header of the last request
Presented ==
    IF last.req.auth.scheme = "Bearer" THEN last.req.auth.token ELSE NoToken

\* the refusal protect gives when no token is supplied
Unauthorized ==
    [status |-> 401, text |-> "Not authorized to access this route",
     data |-> <<>>]

\* C22: a request whose token is no JWT, or is signed with another key, or
\* has lapsed, is answered as a request without a token is: 401 "Not
\* authorized to access this route"
C22_TokenFailuresAlike ==
    last.op = "me" =>
        /\ Presented = NoToken => Answer(last) = Unauthorized
        /\ Presented.kind = "garbage" => Answer(last) = Unauthorized
        /\ Presented.kind = "jwt" /\ Presented.sig # "server" =>
              Answer(last) = Unauthorized
        /\ Presented.kind = "jwt" /\ now \div 1000 >= Presented.exp =>
              Answer(last) = Unauthorized

\* a token the server signed, of a verified identity, refused as lapsed
C22_Witness ==
    /\ last.op = "me"
    /\ Presented.kind = "jwt"
    /\ Presented.sig = "server"
    /\ now \div 1000 >= Presented.exp
    /\ Presented.id \in UserIds(users)
    /\ users[Presented.id].isVerified
    /\ Answer(last) = Unauthorized

-----------------------------------------------------------------------------
(* Properties of /register's refusals (Spec) *)

\* a /register body with a field missing, an address that is no e-mail
\* address, or a password of fewer than 6 characters
InvalidRegistration(req) ==
    \/ req.name = ""
    \/ req.email = NoEmail
    \/ req.password = ""
    \/ ~EmailMatches(CastEmail(req.email))
    \/ Len(req.password) < 6

\* C23: /register with a field missing, a malformed e-mail address or a
\* password of fewer than 6 characters is answered 400 and stores no user
C23_InvalidRegistrationRefused ==
    [][last'.op = "register" /\ InvalidRegistration(last'.req)
       => last'.status = 400 /\ users' = users]_vars

-----------------------------------------------------------------------------
(* Properties of protect under a fault of the store (Spec) *)

\* C24: when User.findById fails while protect looks up the user of a token
\* that verifies, the request is answered 500, not 401
C24_StoreFaultIsServerError ==
    /\ last.op = "me"
    /\ last.req.storeFault
    /\ jwtVerifies(Presented, now)
    => last.status = 500

-----------------------------------------------------------------------------
(* Properties of a /reset-password that fails (Spec) *)

\* C25: a reset-password request that is refused (no such email, a code
\* other than the stored one, a code past its expiry, a new password of
\* fewer than 6 characters) leaves every user document as it was, and each
\* reset code that was stored and not past its expiry still resets the
\* password
C25_FailedResetChangesNothing ==
    [][last'.op = "reset-password" /\ last'.status # 200
       => /\ users' = users
          /\ \A i \in UserIds(users) :
                /\ users[i].resetPasswordOTP # Undefined
                /\ now <= users[i].resetPasswordExpires
                => ResetStatus(users', users[i].email,
                               users[i].resetPasswordOTP) = 200
      ]_vars

\* a wrong code refused while the right one is stored and has not lapsed
C25_Witness ==
    /\ last.op = "reset-password"
    /\ last.text = "Invalid OTP"
    /\ users[Target(users)].resetPasswordOTP \in Codes
    /\ now <= users[Target(users)].resetPasswordExpires
    /\ ResetStatus(users, last.req.email,
                   users[Target(users)].resetPasswordOTP) = 200

-----------------------------------------------------------------------------
(* Properties of an entry's owner (SpecLedger) *)

\* C26: the owner of an entry is the one set when it was created: no step
\* changes the user of an entry that stays in the store, and no call made
\* as one identity changes the entries another identity owns
C26_OwnerFixed ==
    [][/\ \A d \in txs : \A e \in txs' : e._id = d._id => e.user = d.user
       /\ last'.uid # NoUser =>
             \A b \in UserIds(users) \ {last'.uid} :
                 OwnedBy(txs', b) = OwnedBy(txs, b)
      ]_vars

-----------------------------------------------------------------------------
(* Properties of a /register whose mail fails (Spec) *)

\* the user a register request has just stored
Registered == findOneByEmail(users', last'.req.email)

\* C27: a register whose mail could not be sent is answered with an error
\* while the user it stored stays, unverified, with its OTP and expiry; a
\* second register of that email is answered 400 "Email already registered"
\* and stores nothing; the user cannot log in, and gets on by resend-otp and
\* by verify with the stored code
C27_RegisteredDespiteMailFailure ==
    [][last'.op = "register" /\ last'.text = "Email could not be sent"
       => /\ last'.status = 500
          /\ findOneByEmail(users, last'.req.email) = NoUser
          /\ Registered # NoUser
          /\ ~users'[Registered].isVerified
          /\ users'[Registered].otp \in Codes
          /\ users'[Registered].otpExpires = now + OTP_WINDOW_MS
          /\ \A c \in Codes, mailOk \in BOOLEAN :
                LET again == registerHandler(users', last'.req, c, mailOk, now)
                IN /\ again.res.status = 400
                   /\ again.res.text = "Email already registered"
                   /\ again.users = users'
          /\ \A p \in Secrets :
                LoginStatus(users', last'.req.email, p) = 401
          /\ VerifyStatus(users', last'.req.email, users'[Registered].otp) = 200
          /\ \A c \in Codes :
                resendHandler(users', [NoReq EXCEPT !.email = last'.req.email],
                              c, TRUE, now).res.status = 200
      ]_vars

\* a register answered with the mail's failure, its user stored unverified
C27_Witness ==
    /\ last.op = "register"
    /\ last.status = 500
    /\ last.text = "Email could not be sent"
    /\ Target(users) # NoUser
    /\ ~users[Target(users)].isVerified
    /\ users[Target(users)].otp \in Codes

-----------------------------------------------------------------------------
(* The handlers statement by statement: a request in flight is a frame that  *)
(* moves from one await to the next; out holds the responses sent for it,    *)
(* nexts counts the calls of next()                                          *)

Frame(op, req) ==
    [op |-> op, req |-> req, pc |-> "start", out |-> <<>>, nexts |-> 0,
     id |-> NoUser, doc |-> NoDoc]

\* return res.status(status).json(...): the response is sent and the
\* function returns
Sent(f, by, status, text) ==
    [f EXCEPT !.out = Append(@, [by |-> by, status |-> status, text |-> text]),
              !.pc = "end"]

\* the token protect takes from the Authorization header
HeaderToken(req) ==
    IF req.auth.scheme = "Bearer" THEN req.auth.token ELSE NoToken

\* exports.protect, from its start to the await of User.findById and from
\* there to its end; fault: User.findById rejected
protectStep(store, f, t, fault) ==
    LET token == HeaderToken(f.req)
    IN CASE f.pc = "start" ->
              IF token = NoToken \/ ~jwtVerifies(token, t)
              THEN Sent(f, "protect", 401, "Not authorized to access this route")
              ELSE [f EXCEPT !.pc = "findById"]
         [] f.pc = "findById" ->
              IF fault
              THEN Sent(f, "protect", 401, "Not authorized to access this route")
              ELSE IF findById(store, token.id) = NoUser
              THEN Sent(f, "protect", 401, "User no longer exists")
              ELSE IF ~store[token.id].isVerified
              THEN Sent(f, "protect", 401, "Please verify your email first")
              ELSE [f EXCEPT !.nexts = @ + 1, !.pc = "handler"]

\* router.get('/me', protect, ...): the handler protect passes on to
meStep(store, f, t, fault) ==
    IF f.pc = "handler"
    THEN Reply(store, Sent(f, "handler", 200, ""))
    ELSE Reply(store, protectStep(store, f, t, fault))

\* /register with a catch that logs the error and sends nothing
registerStepSilentCatch(store, f, code, t, fault) ==
    CASE f.pc = "start" ->
           IF f.req.name = "" \/ f.req.email = NoEmail \/ f.req.password = ""
           THEN Reply(store, Sent(f, "handler", 400,
                                  "Please provide name, email, and password"))
           ELSE Reply(store, [f EXCEPT !.pc = "findOne"])
      [] f.pc = "findOne" ->
           IF fault
           THEN Reply(store, [f EXCEPT !.pc = "end"])
           ELSE IF findOneByEmail(store, f.req.email) # NoUser
           THEN Reply(store, Sent(f, "handler", 400, "Email already registered"))
           ELSE Reply(store,
                    [f EXCEPT !.pc = "save",
                              !.doc = generateOTP(NewUser(f.req.name, f.req.email,
                                                          f.req.password), code, t)])
      [] f.pc = "save" ->
           IF fault \/ ~UserValid(f.doc) \/ EmailTaken(store, f.doc.email)
           THEN Reply(store, [f EXCEPT !.pc = "end"])
           ELSE Reply(Append(store, preSave(f.doc, TRUE)),
                      [f EXCEPT !.pc = "sendEmail"])
      [] f.pc = "sendEmail" ->
           IF fault
           THEN Reply(store, [f EXCEPT !.pc = "end"])
           ELSE Reply(store, Sent(f, "handler", 201,
                    "Registration successful! Please check your email for OTP verification."))

\* router.post('/register') from one await to the next; fault: the awaited
\* call (User.findOne, user.save, sendEmail) rejected
registerStep(store, f, code, t, fault) ==
    CASE f.pc = "start" ->
           IF f.req.name = "" \/ f.req.email = NoEmail \/ f.req.password = ""
           THEN Reply(store, Sent(f, "handler", 400,
                                  "Please provide name, email, and password"))
           ELSE Reply(store, [f EXCEPT !.pc = "findOne"])
      [] f.pc = "findOne" ->
           IF fault
           THEN Reply(store, Sent(f, "handler", 500, "Registration failed"))
           ELSE IF findOneByEmail(store, f.req.email) # NoUser
           THEN Reply(store, Sent(f, "handler", 400, "Email already registered"))
           ELSE Reply(store,
                    [f EXCEPT !.pc = "save",
                              !.doc = generateOTP(NewUser(f.req.name, f.req.email,
                                                          f.req.password), code, t)])
      [] f.pc = "save" ->
           IF fault
           THEN Reply(store, Sent(f, "handler", 500, "Registration failed"))
           ELSE IF ~UserValid(f.doc)
           THEN Reply(store, Sent(f, "handler", 500, "User validation failed"))
           ELSE IF EmailTaken(store, f.doc.email)
           THEN Reply(store, Sent(f, "handler", 500, "E11000 duplicate key error"))
           ELSE Reply(Append(store, preSave(f.doc, TRUE)),
                      [f EXCEPT !.pc = "sendEmail"])
      [] f.pc = "sendEmail" ->
           IF fault
           THEN Reply(store, Sent(f, "handler", 500, "Email could not be sent"))
           ELSE Reply(store, Sent(f, "handler", 201,
                    "Registration successful! Please check your email for OTP verification."))

\* router.post('/forgot-password') from one await to the next
forgotStep(store, f, code, t, fault) ==
    CASE f.pc = "start" ->
           IF f.req.email = NoEmail
           THEN Reply(store, Sent(f, "handler", 400, "Please provide email"))
           ELSE Reply(store, [f EXCEPT !.pc = "findOne"])
      [] f.pc = "findOne" ->
           IF fault
           THEN Reply(store, Sent(f, "handler", 500, "Failed to process request"))
           ELSE IF findOneByEmail(store, f.req.email) = NoUser
           THEN Reply(store, Sent(f, "handler", 404,
                                  "No account found with that email"))
           ELSE LET id == findOneByEmail(store, f.req.email)
                IN Reply(store,
                         [f EXCEPT !.pc = "save", !.id = id,
                                   !.doc = generateResetOTP(store[id], code, t)])
      [] f.pc = "save" ->
           IF fault
           THEN Reply(store, Sent(f, "handler", 500, "Failed to process request"))
           ELSE Reply([store EXCEPT
                          ![f.id] = [@ EXCEPT
                              !.resetPasswordOTP = f.doc.resetPasswordOTP,
                              !.resetPasswordExpires = f.doc.resetPasswordExpires]],
                      [f EXCEPT !.pc = "sendEmail"])
      [] f.pc = "sendEmail" ->
           IF fault
           THEN Reply(store, Sent(f, "handler", 500, "Failed to process request"))
           ELSE Reply(store, Sent(f, "handler", 200,
                                  "Password reset OTP sent to your email"))

\* the requests that arrive: the store holds one verified account at first
FlowUsers == <<VerifiedUser(EmailB)>>

FlowRegisterReqs ==
    {[NoReq EXCEPT !.name = n, !.email = EmailA, !.password = p] :
        n \in {"Alice", ""}, p \in {"secret1", "short"}}

FlowMeReqs ==
    {[NoReq EXCEPT !.auth = a] :
        a \in {NoAuth, Bearer(Garbage)}
              \cup {Bearer(generateToken(id, StartTime)) : id \in TokenIds}}

InitFlow ==
    /\ users = FlowUsers
    /\ txs = {}
    /\ nextTxId = 1
    /\ now = StartTime
    /\ inflight = <<>>
    /\ last = NoResponse
    /\ trace = <<>>
    /\ transactions = <<>>

\* a request arrives while none is in flight
Arrives(op, req) ==
    /\ inflight = <<>>
    /\ inflight' = <<Frame(op, req)>>
    /\ UNCHANGED <<users, txs, nextTxId, now, last, trace, transactions>>

\* the request in flight runs to its next await, or to its end
Proceeds(op, r) ==
    /\ inflight # <<>>
    /\ inflight[1].op = op
    /\ inflight[1].pc # "end"
    /\ inflight' = <<r.res>>
    /\ users' = r.users
    /\ UNCHANGED <<txs, nextTxId, now, last, trace, transactions>>

FlowRegister ==
    \/ \E req \in FlowRegisterReqs : Arrives("register", req)
    \/ \E c \in Codes, fault \in BOOLEAN :
          Proceeds("register", registerStep(users, inflight[1], c, now, fault))

FlowForgot ==
    \/ \E req \in EmailReqs : Arrives("forgot-password", req)
    \/ \E c \in Codes, fault \in BOOLEAN :
          Proceeds("forgot-password",
                   forgotStep(users, inflight[1], c, now, fault))

FlowMe ==
    \/ \E req \in FlowMeReqs : Arrives("me", req)
    \/ \E fault \in BOOLEAN :
          Proceeds("me", meStep(users, inflight[1], now, fault))

\* the function has returned: what it sent is what the client got
FlowEnds ==
    /\ inflight # <<>>
    /\ inflight[1].pc = "end"
    /\ inflight' = <<>>
    /\ last' = IF inflight[1].out = <<>>
               THEN Response(inflight[1].op, inflight[1].req, 0, "",
                             NoToken, NoUser)
               ELSE Response(inflight[1].op, inflight[1].req,
                             inflight[1].out[1].status, inflight[1].out[1].text,
                             NoToken, NoUser)
    /\ UNCHANGED <<users, txs, nextTxId, now, trace, transactions>>

NextFlow ==
    \/ FlowRegister
    \/ FlowForgot
    \/ FlowMe
    \/ FlowEnds

SpecFlow == InitFlow /\ [][NextFlow]_vars

-----------------------------------------------------------------------------
(* Properties of the handlers' paths (SpecFlow) *)

\* the responses of a frame that one of the two functions sent
SentBy(f, by) == Cardinality({i \in DOMAIN f.out : f.out[i].by = by})

\* the awaits a frame still has before it: it falls with every step
AwaitsLeft(f) ==
    CASE f.pc = "start" -> 4
      [] f.pc \in {"findOne", "findById"} -> 3
      [] f.pc = "save" -> 2
      [] f.pc \in {"sendEmail", "handler"} -> 1
      [] f.pc = "end" -> 0

OneOutcome(f) ==
    /\ Len(f.out) <= 1
    /\ f.pc = "end" => Len(f.out) = 1
    /\ f.nexts + SentBy(f, "protect") <= 1
    /\ f.op = "me" /\ f.pc \in {"handler", "end"} =>
          f.nexts + SentBy(f, "protect") = 1
    /\ f.op # "me" => f.nexts = 0

\* C28: a request of /register, /forgot-password or a protected route gets
\* one response and no more, and has got it when its handler has returned,
\* whether or not the store or the mail failed on the way; protect has then
\* either called next() once or sent that response, not both; and every
\* step takes the handler nearer its return
C28_ExactlyOneOutcome ==
    /\ [](\A i \in DOMAIN inflight : OneOutcome(inflight[i]))
    /\ [][inflight # <<>> /\ inflight' # <<>>
          => AwaitsLeft(inflight'[1]) < AwaitsLeft(inflight[1])]_vars

\* a /register that returned after its mail failed, its one response sent
C28_Witness ==
    /\ inflight # <<>>
    /\ inflight[1].op = "register"
    /\ inflight[1].pc = "end"
    /\ inflight[1].out[1].text = "Email could not be sent"
    /\ findOneByEmail(users, inflight[1].req.email) # NoUser

-----------------------------------------------------------------------------
(* src/context/TransactionContext.tsx, src/components/TransactionModal.tsx  *)

\* Number.prototype.toString: the decimal digits, most significant first
RECURSIVE toString(_)
toString(n) == IF n < 10 THEN <<n>> ELSE Append(toString(n \div 10), n % 10)

\* parseFloat of the text of a number input: NaN for the empty text
RECURSIVE parseDigits(_)
parseDigits(s) ==
    IF s = <<>> THEN 0 ELSE 10 * parseDigits(SubSeq(s, 1, Len(s) - 1)) + s[Len(s)]

parseFloat(s) == IF s = <<>> THEN NotANumber ELSE Num(parseDigits(s))

\* a Transaction: Omit<Transaction, "id"> with its id
WithId(transaction, id) ==
    [id |-> id, type |-> transaction.type, amount |-> transaction.amount,
     category |-> transaction.category, date |-> transaction.date,
     description |-> transaction.description]

Mock(id, type, amount, category, date, description) ==
    [id |-> toString(id), type |-> type, amount |-> Num(amount),
     category |-> category, date |-> date, description |-> description]

mockTransactions ==
    <<Mock(1, "income", 5000, "Salary", "2025-01-15", "Monthly salary"),
      Mock(2, "expense", 1200, "Rent", "2025-01-05", "Monthly rent payment"),
      Mock(3, "expense", 350, "Food", "2025-01-10", "Groceries and dining"),
      Mock(4, "expense", 80, "Transport", "2025-01-12", "Gas and metro"),
      Mock(5, "income", 500, "Freelance", "2025-01-20", "Web design project"),
      Mock(6, "expense", 200, "Entertainment", "2025-01-18", "Movies and games"),
      Mock(7, "expense", 150, "Utilities", "2025-01-08", "Electric and water bills"),
      Mock(8, "income", 300, "Investment", "2025-01-25", "Stock dividends")>>

\* setTimeout(resolve, 500)
SIMULATED_DELAY_MS == 500

\* a call of the provider waiting for its timer; transaction is the
\* argument of add and update, id that of update and delete
NoData ==
    [type |-> "", amount |-> NotANumber, category |-> "", date |-> "",
     description |-> ""]
NoId == <<>>
Call(op, id, transaction, t) ==
    [op |-> op, id |-> id, transaction |-> transaction, started |-> t,
     due |-> t + SIMULATED_DELAY_MS]

\* setTransactions((prev) => [newTransaction, ...prev]), id: Date.now().toString()
addTransaction(prev, transaction, t) ==
    <<WithId(transaction, toString(t))>> \o prev

\* an update that adds the entry when no entry has the id
updateTransactionUpserts(prev, id, transaction) ==
    IF \E i \in DOMAIN prev : prev[i].id = id
    THEN [i \in DOMAIN prev |->
             IF prev[i].id = id THEN WithId(transaction, id) ELSE prev[i]]
    ELSE <<WithId(transaction, id)>> \o prev

\* setTransactions((prev) => prev.map((t) => (t.id === id ? { ...transaction, id } : t)))
updateTransaction(prev, id, transaction) ==
    [i \in DOMAIN prev |->
        IF prev[i].id = id THEN WithId(transaction, id) ELSE prev[i]]

\* setTransactions((prev) => prev.filter((t) => t.id !== id))
RECURSIVE deleteTransaction(_, _)
deleteTransaction(prev, id) ==
    IF prev = <<>> THEN <<>>
    ELSE IF Head(prev).id # id
    THEN <<Head(prev)>> \o deleteTransaction(Tail(prev), id)
    ELSE deleteTransaction(Tail(prev), id)

\* the state update a call makes when its timer has fired at time t
Settled(call, prev, t) ==
    CASE call.op = "add" -> addTransaction(prev, call.transaction, t)
      [] call.op = "update" -> updateTransaction(prev, call.id, call.transaction)
      [] call.op = "delete" -> deleteTransaction(prev, call.id)

\* TransactionModal's form state and the transaction it edits, if any
NoTransaction == WithId(NoData, NoId)
Forms ==
    {[type |-> "expense", amount |-> <<4, 2>>, category |-> "Food",
      date |-> "2025-02-01", description |-> "Lunch"],
     [type |-> "income", amount |-> <<7>>, category |-> "Other",
      date |-> "2025-02-02", description |-> ""]}

\* handleSubmit: the call it makes of the provider
handleSubmit(transaction, formData, t) ==
    LET data == [type |-> formData.type,
                 amount |-> parseFloat(formData.amount),
                 category |-> formData.category,
                 date |-> formData.date,
                 description |-> formData.description]
    IN IF transaction # NoTransaction
       THEN Call("update", transaction.id, data, t)
       ELSE Call("add", NoId, data, t)

\* the entries a click can reach: the two at the top of the list shown, and
\* the first mock entry in a dialog opened before it was deleted
Clickable ==
    {transactions[i] : i \in {j \in DOMAIN transactions : j <= 2}}
    \cup {mockTransactions[1]}

InitClient ==
    /\ users = <<>>
    /\ txs = {}
    /\ nextTxId = 1
    /\ now = StartTime
    /\ inflight = <<>>
    /\ last = NoResponse
    /\ trace = <<>>
    /\ transactions = mockTransactions

\* a call is made: its timer is set
Called(call) ==
    /\ Len(trace) + Len(inflight) < MaxCalls
    /\ inflight' = Append(inflight, call)
    /\ UNCHANGED <<users, txs, nextTxId, now, last, trace, transactions>>

SubmitAdd ==
    \E formData \in Forms : Called(handleSubmit(NoTransaction, formData, now))

SubmitEdit ==
    \E transaction \in Clickable, formData \in Forms :
        Called(handleSubmit(transaction, formData, now))

DeleteClicked ==
    \E transaction \in Clickable :
        Called(Call("delete", transaction.id, NoData, now))

\* the oldest timer has run out (timers of one delay fire in the order they
\* were set, at their time or later): its call updates the state
TimerFires ==
    /\ inflight # <<>>
    /\ now >= Head(inflight).due
    /\ transactions' = Settled(Head(inflight), transactions, now)
    /\ inflight' = Tail(inflight)
    /\ trace' = Append(trace, [call |-> Head(inflight), at |-> now])
    /\ UNCHANGED <<users, txs, nextTxId, now, last>>

\* the browser's clock advances: by a millisecond, or by the delay
ClientTick ==
    /\ \E d \in {1, SIMULATED_DELAY_MS} :
          /\ now + d <= StartTime + MaxElapsed
          /\ d = 1 => (now - StartTime) % SIMULATED_DELAY_MS < MaxLate
          /\ now' = now + d
    /\ UNCHANGED <<users, txs, nextTxId, inflight, last, trace, transactions>>

NextClient ==
    \/ SubmitAdd
    \/ SubmitEdit
    \/ DeleteClicked
    \/ TimerFires
    \/ ClientTick

SpecClient == InitClient /\ [][NextClient]_vars

-----------------------------------------------------------------------------
(* Properties of the TransactionProvider (SpecClient) *)

Ids(list) == [i \in DOMAIN list |-> list[i].id]

\* the fields of an entry other than its id
DataOf(t) ==
    [type |-> t.type, amount |-> t.amount, category |-> t.category,
     date |-> t.date, description |-> t.description]

\* C29: calls whose delays overlap take effect one at a time, in the order
\* their timers fire, each on the list the one before left: an add puts its
\* entry at the top and leaves the rest; an update leaves the length and the
\* id at every position, replaces the fields of the entries with its id and
\* leaves the others, so that it changes nothing when no entry has the id
\* (an entry deleted meanwhile does not come back); a delete leaves the
\* other entries in their order
C29_OneAtATime ==
    [][trace' # trace =>
        LET call == Head(inflight)
        IN /\ trace' = Append(trace, [call |-> call, at |-> now])
           /\ call.op = "add" =>
                 /\ Tail(transactions') = transactions
                 /\ DataOf(Head(transactions')) = call.transaction
           /\ call.op = "update" =>
                 /\ Ids(transactions') = Ids(transactions)
                 /\ \A i \in DOMAIN transactions :
                       IF transactions[i].id = call.id
                       THEN DataOf(transactions'[i]) = call.transaction
                       ELSE transactions'[i] = transactions[i]
                 /\ (\A i \in DOMAIN transactions : transactions[i].id # call.id)
                       => transactions' = transactions
           /\ call.op = "delete" =>
                 transactions' = SelectSeq(transactions,
                                           LAMBDA t : t.id # call.id)
      ]_vars

\* an update of the first mock entry, called while that entry's delete was
\* waiting, has taken effect after the delete and the entry is still gone
C29_Witness ==
    /\ Len(trace) >= 2
    /\ \E k \in DOMAIN trace : \E l \in DOMAIN trace :
          /\ k < l
          /\ trace[k].call.op = "delete"
          /\ trace[l].call.op = "update"
          /\ trace[k].call.id = mockTransactions[1].id
          /\ trace[l].call.id = mockTransactions[1].id
          /\ trace[l].call.started < trace[k].at
    /\ \A i \in DOMAIN transactions : transactions[i].id # mockTransactions[1].id

\* C30: the ids of the entries in the list are pairwise distinct, whenever
\* the adds were completed
C30_IdsDistinct ==
    \A i, j \in DOMAIN transactions :
        i # j => transactions[i].id # transactions[j].id

====
